---- MODULE Spec2Model ----
(***************************************************************************)
(* VAX F_Float / G_Float <-> IEEE S_Float / T_Float conversions of the     *)
(* vaxdata package, with the stream readers built on them.                 *)
(*                                                                         *)
(* A uint32 is modelled as the set of its one bits, a subset of 0..31, and *)
(* a uint64 as a subset of 0..63, so that every Go operator keeps its      *)
(* width: a bit shifted past the top is lost, a subtraction below zero     *)
(* wraps.  A float32 / float64 is modelled by its bit pattern              *)
(* (math.Float32bits and math.Float32frombits are bit casts).  A byte is   *)
(* a number in 0..255 and a []byte a sequence of bytes.                    *)
(***************************************************************************)
EXTENDS Integers, Sequences, FiniteSets, TLC

VARIABLES
    pending, \* the call to make next ("none" when there is none)
    op,      \* the call made last ("none" before the first call)
    arg,     \* the argument of the call
    res,     \* what it returned
    rkind,   \* which reader was constructed: "F", "G" or "none"
    rdata,   \* the bytes the underlying io.Reader was created with
    roff,    \* how many of them it has handed out
    rbuf,    \* the reader's reused buffer (vaxin.buf)
    rcalls,  \* number of calls of Read so far
    rval,    \* value returned by the last Read
    rerr,    \* error returned by the last Read
    wkind,   \* which writer function is called: "F", "G" or "none"
    wsink,   \* the bytes the io.Writer has received
    wlog,    \* the values WriteFFloat / WriteGFloat was called with, in order
    werr     \* error returned by the last WriteFFloat / WriteGFloat

vars == <<pending, op, arg, res, rkind, rdata, roff, rbuf, rcalls, rval, rerr,
          wkind, wsink, wlog, werr>>
convVars == <<pending, op, arg, res>>
readerVars == <<rkind, rdata, roff, rbuf, rcalls, rval, rerr>>
writerVars == <<wkind, wsink, wlog, werr>>

(***************************************************************************)
(* Go's unsigned 32-bit operators.                                         *)
(***************************************************************************)
Bit32 == 0 .. 31
Bit64 == 0 .. 63

And32(a, b) == a \cap b
Or32(a, b) == a \cup b
Not32(a) == Bit32 \ a
Shl32(a, n) == {i + n : i \in a} \cap Bit32
Shr32(a, n) == {i - n : i \in a} \cap Bit32

\* The number a set of bit positions below 31 stands for.
RECURSIVE Val(_)
Val(S) == IF S = {} THEN 0 ELSE LET i == CHOOSE x \in S : TRUE IN 2 ^ i + Val(S \ {i})

\* The one bits of a number in 0 .. 2^31 - 1.
Bits(n) == {i \in 0 .. 30 : (n \div 2 ^ i) % 2 = 1}

Lo16(a) == Val(a \cap (0 .. 15))
Hi16(a) == Val({i - 16 : i \in a \cap (16 .. 31)})

\* a + b and a - b on uint32: the carry out of bit 31 is dropped.
Add32(a, b) ==
    LET lo == Lo16(a) + Lo16(b)
        hi == Hi16(a) + Hi16(b) + (lo \div 65536)
    IN  Bits(lo % 65536) \cup Shl32(Bits(hi % 65536), 16)
Sub32(a, b) == Add32(a, Add32(Not32(b), {0}))

\* a > b on uint32: the highest bit in which they differ is set in a.
Gt32(a, b) == \E i \in a \ b : \A j \in b \ a : j < i

(***************************************************************************)
(* conversions.go: the format constants.                                   *)
(***************************************************************************)
SignBit == {31}

VaxFExponentMask == 23 .. 30
VaxFExponentSize == 8
VaxFExponentBias == 2 ^ (VaxFExponentSize - 1)
VaxFMantissaMask == 0 .. 22
VaxFMantissaSize == 23
VaxFHiddenBit == Shl32({0}, VaxFMantissaSize)

VaxGExponentMask == 20 .. 30
VaxGExponentSize == 11
VaxGExponentBias == 2 ^ (VaxGExponentSize - 1)
VaxGMantissaMask == 0 .. 19
VaxGMantissaSize == 20
\* VaxGHiddenBit one place too high.
VaxGHiddenBitOneHigher == Shl32({0}, VaxGMantissaSize + 1)

VaxGHiddenBit == Shl32({0}, VaxGMantissaSize)

IeeeSExponentMask == 23 .. 30
IeeeSExponentSize == 8
IeeeSExponentBias == 2 ^ (IeeeSExponentSize - 1) - 1
IeeeSMantissaSize == 23

IeeeTExponentMask == 20 .. 30
IeeeTExponentSize == 11
IeeeTExponentBias == 2 ^ (IeeeTExponentSize - 1) - 1
IeeeTMantissaSize == 20

(***************************************************************************)
(* conversions.go: the word-swapped layout.                                *)
(***************************************************************************)
\* binary.BigEndian.Uint16 of two bytes, as a uint32.
BigEndianUint16(b) == Bits(b[1] * 256 + b[2])
\* uint32FromVaxbits reading the four bytes as one big-endian word.
uint32FromVaxbitsNoSwap(b) ==
    Or32(Shl32(BigEndianUint16(SubSeq(b, 1, 2)), 16), BigEndianUint16(SubSeq(b, 3, 4)))

uint32FromVaxbits(b) ==
    Or32(BigEndianUint16(SubSeq(b, 1, 2)), Shl32(BigEndianUint16(SubSeq(b, 3, 4)), 16))

uint32FromVax(v) == Or32(Shr32(v, 16), Shl32(And32(v, 0 .. 15), 16))

\* binary.BigEndian.PutUint32 / PutUint64: the bytes of v, most significant first.
ByteAt(v, k) == Val({i - 8 * k : i \in v \cap ((8 * k) .. (8 * k + 7))})
PutUint32(v) == [j \in 1 .. 4 |-> ByteAt(v, 4 - j)]
PutUint64(v) == [j \in 1 .. 8 |-> ByteAt(v, 8 - j)]

(***************************************************************************)
(* The errors the package returns.                                         *)
(***************************************************************************)
Nil == "nil"
ErrNoVaxEquivalent == "no VAX equivalent for IEEE +-Infinity and +-NaN"
ErrFOverflow == "IEEE S_Float too large for VAX F_Float"
ErrGOverflow == "IEEE T_Float too large for VAX G_Float"
ErrFReserved == "F_Float to S_Float: VAX reserved operand fault"
ErrGReserved == "G_Float to T_Float: VAX reserved operand fault"
EOF == "EOF"
ErrUnexpectedEOF == "unexpected EOF"

(***************************************************************************)
(* VaxFFloatfromFloat32: float32 -> F_Float.                               *)
(***************************************************************************)
\* EncFExponentAdjustment without the 1 for the moved binary point.
EncFExponentAdjustmentBiasOnly == Bits(VaxFExponentBias - IeeeSExponentBias)

\* ExponentAdjustment of VaxFFloatfromFloat32, a uint32 constant.
EncFExponentAdjustment == Bits(1 + VaxFExponentBias - IeeeSExponentBias)
\* EncFMaxExponent one too large.
EncFMaxExponentOffByOne == Bits(2 * VaxFExponentBias)

\* The largest exponent field of an F_Float, 2*VaxFExponentBias - 1.
EncFMaxExponent == Bits(2 * VaxFExponentBias - 1)
\* EncFLoopBody with the exponent left alone.
EncFLoopBodyKeepsExponent(s) == [m |-> Shl32(s.m, 1), e |-> s.e, iters |-> s.iters + 1]

\* The body "m <<= 1; e -= 1" of the normalization loop, on the loop's
\* variables; e is a uint32 and wraps below zero.  iters counts the passes.
EncFLoopBody(s) == [m |-> Shl32(s.m, 1), e |-> Sub32(s.e, {0}), iters |-> s.iters + 1]

\* The loop "for (m & HiddenBit) == 0 { ... }".
RECURSIVE EncFNormalize(_)
EncFNormalize(s) ==
    IF And32(s.m, VaxFHiddenBit) = {} THEN EncFNormalize(EncFLoopBody(s)) ELSE s

\* "Fixup to VAX +-extrema [e=all-1's] with zero mantissa [m=0]".
EncFNoEquivalent(ieeepart1) == Or32(And32(ieeepart1, SignBit), VaxFExponentMask)
\* EncFOverflow without the sign of the input.
EncFOverflowDropsSign(ieeepart1) == Not32(SignBit)

\* "Overflow; fixup to VAX +-extrema [e=m=all-1's]".
EncFOverflow(ieeepart1) == Or32(And32(ieeepart1, SignBit), Not32(SignBit))

\* Returns val (the VaxFFloat), err, result (the word before the final
\* word swap) and iters (passes through the normalization loop).
VaxFFloatfromFloat32(f) ==
    LET MantissaMask == VaxFMantissaMask
        MantissaSize == VaxFMantissaSize
        ieeepart1 == f
        e0 == And32(ieeepart1, IeeeSExponentMask)
        e1 == Shr32(e0, MantissaSize)
        m1 == And32(ieeepart1, MantissaMask)
        n  == IF e1 = {}
              THEN EncFNormalize([m |-> Shl32(m1, 1), e |-> e1, iters |-> 0])
              ELSE [m |-> m1, e |-> e1, iters |-> 0]
        m  == IF e1 = {} THEN And32(n.m, MantissaMask) ELSE m1
        e  == Add32(n.e, EncFExponentAdjustment)
        out ==
            IF And32(ieeepart1, Not32(SignBit)) = {}
            THEN [result |-> {}, err |-> Nil, iters |-> 0]
            ELSE IF e0 = IeeeSExponentMask
            THEN [result |-> EncFNoEquivalent(ieeepart1),
                  err |-> ErrNoVaxEquivalent, iters |-> 0]
            ELSE IF ~Gt32(e, {})
            THEN [result |-> {}, err |-> Nil, iters |-> n.iters]
            ELSE IF Gt32(e, EncFMaxExponent)
            THEN [result |-> EncFOverflow(ieeepart1),
                  err |-> ErrFOverflow, iters |-> n.iters]
            ELSE [result |-> Or32(Or32(And32(ieeepart1, SignBit), Shl32(e, MantissaSize)), m),
                  err |-> Nil, iters |-> n.iters]
    IN  [val |-> uint32FromVax(out.result), err |-> out.err,
         result |-> out.result, iters |-> out.iters]

(***************************************************************************)
(* Float32fromVaxFFloat: 4 bytes of F_Float -> float32.                    *)
(***************************************************************************)
\* ExponentAdjustment (an int32) and InPlaceExponentAdjustment (a uint32).
DecFExponentAdjustment == 1 + VaxFExponentBias - IeeeSExponentBias
\* DecFInPlaceExponentAdjustment not shifted to the exponent field.
DecFInPlaceExponentAdjustmentUnshifted == Bits(DecFExponentAdjustment)

DecFInPlaceExponentAdjustment == Bits(DecFExponentAdjustment * 2 ^ IeeeSMantissaSize)

\* DecFSubnormal that rounds to nearest on the last bit shifted out.
DecFSubnormalRounds(vaxpart1, e) ==
    LET hm == Or32(VaxFHiddenBit, And32(vaxpart1, VaxFMantissaMask))
    IN  Or32(And32(vaxpart1, SignBit),
             Add32(Shr32(hm, 1 - e), And32(Shr32(hm, 0 - e), {0})))

\* IEEE subnormal form of an F_Float whose adjusted exponent e is <= 0.
DecFSubnormal(vaxpart1, e) ==
    Or32(And32(vaxpart1, SignBit),
         Shr32(Or32(VaxFHiddenBit, And32(vaxpart1, VaxFMantissaMask)), 1 - e))
\* DecFZeroExponent that passes a dirty zero's mantissa on.
DecFZeroExponentKeepsMantissa(vaxpart1) ==
    IF And32(vaxpart1, SignBit) = SignBit
    THEN [val |-> {}, err |-> ErrFReserved]
    ELSE [val |-> And32(vaxpart1, VaxFMantissaMask), err |-> Nil]

\* The branch for a zero exponent field: a reserved operand (s=1) is an
\* error returned with 0, a true or dirty zero (s=0) is +0.
DecFZeroExponent(vaxpart1) ==
    IF And32(vaxpart1, SignBit) = SignBit
    THEN [val |-> {}, err |-> ErrFReserved]
    ELSE [val |-> {}, err |-> Nil]

\* Returns val (the bit pattern of the float32) and err.
Float32fromVaxFFloat(buf) ==
    LET MantissaSize == VaxFMantissaSize
        vaxpart1 == uint32FromVaxbits(buf)
        e0 == Val(And32(vaxpart1, VaxFExponentMask))
        e1 == e0 \div 2 ^ MantissaSize
        e  == e1 - DecFExponentAdjustment
    IN  IF e0 = 0
        THEN DecFZeroExponent(vaxpart1)
        ELSE IF e > 0
        THEN [val |-> Sub32(vaxpart1, DecFInPlaceExponentAdjustment), err |-> Nil]
        ELSE [val |-> DecFSubnormal(vaxpart1, e), err |-> Nil]

(***************************************************************************)
(* VaxGFloatfromFloat64: float64 -> G_Float.                               *)
(***************************************************************************)
\* uint32(in >> 32) and uint32(in & 0x0FFFFFFFF) of a uint64.
HighWord(in) == {i - 32 : i \in in \cap (32 .. 63)}
LowWord(in) == in \cap Bit32

\* (uint64(hi) << 32) | uint64(lo)
Uint64FromWords(hi, lo) == {i + 32 : i \in hi} \cup lo

EncGExponentAdjustment == Bits(1 + VaxGExponentBias - IeeeTExponentBias)
EncGMaxExponent == Bits(2 * VaxGExponentBias - 1)
\* EncGShiftLeft taking the carry from bit 30 of the low-order word.
EncGShiftLeftCarryFromBit30(m, vaxpart2) ==
    [m |-> Or32(Shl32(m, 1), Shr32(vaxpart2, 30)), vaxpart2 |-> Shl32(vaxpart2, 1)]

\* One step "m = (m << 1) | (vaxpart2 >> 31); vaxpart2 <<= 1" of the
\* two-word left shift.
EncGShiftLeft(m, vaxpart2) ==
    [m |-> Or32(Shl32(m, 1), Shr32(vaxpart2, 31)), vaxpart2 |-> Shl32(vaxpart2, 1)]
\* EncGLoopBody with the exponent left alone.
EncGLoopBodyKeepsExponent(s) ==
    LET t == EncGShiftLeft(s.m, s.vaxpart2)
    IN  [m |-> t.m, vaxpart2 |-> t.vaxpart2, e |-> s.e, iters |-> s.iters + 1]

\* The body of the normalization loop, on the loop's variables: the
\* two-word shift and "e -= 1"; e is a uint32 and wraps below zero.
EncGLoopBody(s) ==
    LET t == EncGShiftLeft(s.m, s.vaxpart2)
    IN  [m |-> t.m, vaxpart2 |-> t.vaxpart2, e |-> Sub32(s.e, {0}), iters |-> s.iters + 1]

\* The loop "for (m & HiddenBit) == 0 { ... }".
RECURSIVE EncGNormalize(_)
EncGNormalize(s) ==
    IF And32(s.m, VaxGHiddenBit) = {} THEN EncGNormalize(EncGLoopBody(s)) ELSE s
\* EncGNoEquivalent with the overflow pattern [e=m=all-1's] in its place.
EncGNoEquivalentAllOnes(ieeepart1) ==
    [vaxpart1 |-> Or32(And32(ieeepart1, SignBit), Not32(SignBit)), vaxpart2 |-> Bit32]

\* "Fixup to VAX +-extrema [e=all-1's] with zero mantissa [m=0]".
EncGNoEquivalent(ieeepart1) ==
    [vaxpart1 |-> Or32(And32(ieeepart1, SignBit), VaxGExponentMask), vaxpart2 |-> {}]

\* "Overflow; fixup to VAX +-extrema [e=m=all-1's]".
EncGOverflow(ieeepart1) ==
    [vaxpart1 |-> Or32(And32(ieeepart1, SignBit), Not32(SignBit)), vaxpart2 |-> Bit32]

\* Returns val (the VaxGFloat), err, vaxpart1 and vaxpart2 (the two words
\* before the final word swaps) and iters (passes through the loop).
VaxGFloatfromFloat64(f) ==
    LET MantissaMask == VaxGMantissaMask
        MantissaSize == VaxGMantissaSize
        ieeepart1 == HighWord(f)
        inpart2 == LowWord(f)
        e0 == And32(ieeepart1, IeeeTExponentMask)
        e1 == Shr32(e0, MantissaSize)
        m1 == And32(ieeepart1, MantissaMask)
        s1 == EncGShiftLeft(m1, inpart2)
        n  == IF e1 = {}
              THEN EncGNormalize([m |-> s1.m, vaxpart2 |-> s1.vaxpart2, e |-> e1, iters |-> 0])
              ELSE [m |-> m1, vaxpart2 |-> inpart2, e |-> e1, iters |-> 0]
        m  == IF e1 = {} THEN And32(n.m, MantissaMask) ELSE m1
        e  == Add32(n.e, EncGExponentAdjustment)
        out ==
            IF Or32(And32(ieeepart1, Not32(SignBit)), inpart2) = {}
            THEN [vaxpart1 |-> {}, vaxpart2 |-> inpart2, err |-> Nil, iters |-> 0]
            ELSE IF e0 = IeeeTExponentMask
            THEN [vaxpart1 |-> EncGNoEquivalent(ieeepart1).vaxpart1,
                  vaxpart2 |-> EncGNoEquivalent(ieeepart1).vaxpart2,
                  err |-> ErrNoVaxEquivalent, iters |-> 0]
            ELSE IF ~Gt32(e, {})
            THEN [vaxpart1 |-> {}, vaxpart2 |-> {}, err |-> Nil, iters |-> n.iters]
            ELSE IF Gt32(e, EncGMaxExponent)
            THEN [vaxpart1 |-> EncGOverflow(ieeepart1).vaxpart1,
                  vaxpart2 |-> EncGOverflow(ieeepart1).vaxpart2,
                  err |-> ErrGOverflow, iters |-> n.iters]
            ELSE [vaxpart1 |-> Or32(Or32(And32(ieeepart1, SignBit), Shl32(e, MantissaSize)), m),
                  vaxpart2 |-> n.vaxpart2, err |-> Nil, iters |-> n.iters]
    IN  [val |-> Uint64FromWords(uint32FromVax(out.vaxpart2), uint32FromVax(out.vaxpart1)),
         err |-> out.err, vaxpart1 |-> out.vaxpart1, vaxpart2 |-> out.vaxpart2,
         iters |-> out.iters]

(***************************************************************************)
(* Float64fromVaxGFloat: 8 bytes of G_Float -> float64.                    *)
(***************************************************************************)
DecGExponentAdjustment == 1 + VaxGExponentBias - IeeeTExponentBias
\* DecGInPlaceExponentAdjustment of zero: the exponent field is passed on.
DecGInPlaceExponentAdjustmentNone == {}

DecGInPlaceExponentAdjustment == Bits(DecGExponentAdjustment * 2 ^ IeeeTMantissaSize)

\* DecGSubnormal that shifts each word on its own.
DecGSubnormalNoCarry(vaxpart1, vaxpart2, e) ==
    LET v1 == Or32(And32(vaxpart1, Or32(SignBit, VaxGMantissaMask)), VaxGHiddenBit)
    IN  [ieeepart1 |-> Or32(And32(v1, SignBit),
                            Shr32(And32(v1, Or32(VaxGHiddenBit, VaxGMantissaMask)), 1 - e)),
         ieeepart2 |-> Shr32(vaxpart2, 1 - e)]

\* IEEE subnormal form of a G_Float whose adjusted exponent e is <= 0: the
\* two-word right shift by 1 - e.
DecGSubnormal(vaxpart1, vaxpart2, e) ==
    LET v1 == Or32(And32(vaxpart1, Or32(SignBit, VaxGMantissaMask)), VaxGHiddenBit)
    IN  [ieeepart1 |-> Or32(And32(v1, SignBit),
                            Shr32(And32(v1, Or32(VaxGHiddenBit, VaxGMantissaMask)), 1 - e)),
         ieeepart2 |-> Or32(Shl32(v1, 31 + e), Shr32(vaxpart2, 1 - e))]
\* DecGZeroExponent that sets the error and leaves the words as read.
DecGZeroExponentKeepsWords(vaxpart1, vaxpart2) ==
    [ieeepart1 |-> vaxpart1, ieeepart2 |-> vaxpart2,
     err |-> IF And32(vaxpart1, SignBit) = SignBit THEN ErrGReserved ELSE Nil]

\* The branch for a zero exponent field: a reserved operand (s=1) sets the
\* error; both words of the result are set to zero either way.
DecGZeroExponent(vaxpart1, vaxpart2) ==
    [ieeepart1 |-> {}, ieeepart2 |-> {},
     err |-> IF And32(vaxpart1, SignBit) = SignBit THEN ErrGReserved ELSE Nil]

\* Returns val (the bit pattern of the float64), err, and the two words
\* vaxpart1 and vaxpart2 as read from the buffer.
Float64fromVaxGFloat(buf) ==
    LET MantissaSize == VaxGMantissaSize
        vaxpart2 == uint32FromVaxbits(SubSeq(buf, 1, 4))
        vaxpart1 == uint32FromVaxbits(SubSeq(buf, 5, 8))
        e0 == Val(And32(vaxpart1, VaxGExponentMask))
        e1 == e0 \div 2 ^ MantissaSize
        e  == e1 - DecGExponentAdjustment
        out ==
            IF e0 = 0
            THEN DecGZeroExponent(vaxpart1, vaxpart2)
            ELSE IF e > 0
            THEN [ieeepart1 |-> Sub32(vaxpart1, DecGInPlaceExponentAdjustment),
                  ieeepart2 |-> vaxpart2, err |-> Nil]
            ELSE LET d == DecGSubnormal(vaxpart1, vaxpart2, e)
                 IN  [ieeepart1 |-> d.ieeepart1, ieeepart2 |-> d.ieeepart2, err |-> Nil]
    IN  [val |-> Uint64FromWords(out.ieeepart1, out.ieeepart2), err |-> out.err,
         vaxpart1 |-> vaxpart1, vaxpart2 |-> vaxpart2]

(***************************************************************************)
(* The stream readers.                                                     *)
(***************************************************************************)
\* io.ReadFull(r, buf) on a reader holding data of which off bytes are
\* consumed: fills buf or reports why it could not.
ReadFull(data, off, buf) ==
    LET avail == Len(data) - off
        n == IF avail < Len(buf) THEN avail ELSE Len(buf)
    IN  [buf |-> [j \in 1 .. Len(buf) |-> IF j <= n THEN data[off + j] ELSE buf[j]],
         off |-> off + n,
         err |-> IF n = Len(buf) THEN Nil ELSE IF n = 0 THEN EOF ELSE ErrUnexpectedEOF]

\* NewVaxFFloatReader / NewVaxGFloatReader: the buffer make([]byte, n).
NewVaxFFloatReaderBuf == [j \in 1 .. 4 |-> 0]
NewVaxGFloatReaderBuf == [j \in 1 .. 8 |-> 0]

\* VaxFFloatReader.Read that leaves a unit it could not convert in the stream.
VaxFFloatReaderReadRewindsOnError(data, off, buf) ==
    LET rf == ReadFull(data, off, buf)
        d  == Float32fromVaxFFloat(rf.buf)
    IN  IF rf.err # Nil
        THEN [buf |-> rf.buf, off |-> rf.off, val |-> {}, err |-> rf.err]
        ELSE [buf |-> rf.buf, off |-> IF d.err # Nil THEN off ELSE rf.off,
              val |-> d.val, err |-> d.err]

\* VaxFFloatReader.Read: the reader's new state with the value and error returned.
VaxFFloatReaderRead(data, off, buf) ==
    LET rf == ReadFull(data, off, buf)
        d  == Float32fromVaxFFloat(rf.buf)
    IN  IF rf.err # Nil
        THEN [buf |-> rf.buf, off |-> rf.off, val |-> {}, err |-> rf.err]
        ELSE [buf |-> rf.buf, off |-> rf.off, val |-> d.val, err |-> d.err]
\* VaxGFloatReader.Read that converts the buffer whatever io.ReadFull reports.
VaxGFloatReaderReadUnchecked(data, off, buf) ==
    LET rf == ReadFull(data, off, buf)
        d  == Float64fromVaxGFloat(rf.buf)
    IN  [buf |-> rf.buf, off |-> rf.off, val |-> d.val, err |-> d.err]

\* VaxGFloatReader.Read.
VaxGFloatReaderRead(data, off, buf) ==
    LET rf == ReadFull(data, off, buf)
        d  == Float64fromVaxGFloat(rf.buf)
    IN  IF rf.err # Nil
        THEN [buf |-> rf.buf, off |-> rf.off, val |-> {}, err |-> rf.err]
        ELSE [buf |-> rf.buf, off |-> rf.off, val |-> d.val, err |-> d.err]

(***************************************************************************)
(* The inputs the conversions are called with.                             *)
(***************************************************************************)
\* Exponent fields are taken within ExpWindow of the least, the middle and
\* the greatest value of the field.
ExpWindow == 3

\* A reader's stream holds at most MaxUnits whole units.
MaxUnits == 2

ExpSamples(max) ==
    {x \in 0 .. max : \/ x <= ExpWindow
                      \/ (x >= max \div 2 - ExpWindow /\ x <= max \div 2 + ExpWindow + 1)
                      \/ x >= max - ExpWindow}

\* Mantissas of n bits: zero, every single bit, every run of low bits up to
\* a highest bit, every highest bit with the lowest bit, and the two
\* alternating patterns.
MantSamples(n) ==
    {{}} \cup {{p} : p \in 0 .. n - 1} \cup {0 .. p : p \in 0 .. n - 1}
         \cup {{0, p} : p \in 0 .. n - 1}
         \cup {{i \in 0 .. n - 1 : i % 2 = 0}, {i \in 0 .. n - 1 : i % 2 = 1}}

\* The 32-bit word s eeeeeeee mmmmmmmmmmmmmmmmmmmmmmm (S_floating, and the
\* F_floating word before it is word-swapped).
Word32(s, e, m) == (IF s = 1 THEN SignBit ELSE {}) \cup Shl32(Bits(e), 23) \cup m

\* The 64-bit word s eeeeeeeeeee m(52) (T_floating, and the two G_floating
\* words before they are word-swapped).
Word64(s, e, m) ==
    Uint64FromWords((IF s = 1 THEN SignBit ELSE {}) \cup Shl32(Bits(e), 20)
                        \cup {i - 32 : i \in m \cap (32 .. 51)},
                    m \cap Bit32)

Float32Inputs == {Word32(s, e, m) : s \in 0 .. 1, e \in ExpSamples(255), m \in MantSamples(23)}
Float64Inputs == {Word64(s, e, m) : s \in 0 .. 1, e \in ExpSamples(2047), m \in MantSamples(52)}

\* The stored bytes of an F_Float whose word is w: the low-order 16-bit word
\* first, each word big-endian.
VaxFBytes(w) == <<ByteAt(w, 1), ByteAt(w, 0), ByteAt(w, 3), ByteAt(w, 2)>>

\* The stored bytes of a G_Float whose 64-bit word is w: the low-order half
\* first, each half stored as an F_Float word is.
VaxGBytes(w) == VaxFBytes(LowWord(w)) \o VaxFBytes(HighWord(w))

VaxFInputs == {VaxFBytes(w) : w \in Float32Inputs}
VaxGInputs == {VaxGBytes(w) : w \in Float64Inputs}

(***************************************************************************)
(* Calls of the conversions.                                               *)
(***************************************************************************)
\* A behaviour makes one call: the conversions keep no state, so a call's
\* result depends on its argument alone.  Init draws the function to call
\* and its argument.
Calls ==
    [fn : {"VaxFFloatfromFloat32", "uint32FromVax"}, arg : Float32Inputs]
        \cup [fn : {"VaxGFloatfromFloat64"}, arg : Float64Inputs]
        \cup [fn : {"Float32fromVaxFFloat"}, arg : VaxFInputs]
        \cup [fn : {"Float64fromVaxGFloat"}, arg : VaxGInputs]

InitReaderIdle ==
    /\ rkind = "none" /\ rdata = <<>> /\ roff = 0 /\ rbuf = <<>>
    /\ rcalls = 0 /\ rval = {} /\ rerr = Nil

InitWriterIdle == wkind = "none" /\ wsink = <<>> /\ wlog = <<>> /\ werr = Nil

Init ==
    /\ \E c \in Calls : pending = c.fn /\ arg = c.arg
    /\ op = "none" /\ res = {}
    /\ InitReaderIdle
    /\ InitWriterIdle

CallVaxFFloatfromFloat32 ==
    /\ pending = "VaxFFloatfromFloat32"
    /\ pending' = "RoundTripF" /\ op' = pending /\ res' = VaxFFloatfromFloat32(arg)
    /\ UNCHANGED <<arg, readerVars, writerVars>>

CallVaxGFloatfromFloat64 ==
    /\ pending = "VaxGFloatfromFloat64"
    /\ pending' = "RoundTripG" /\ op' = pending /\ res' = VaxGFloatfromFloat64(arg)
    /\ UNCHANGED <<arg, readerVars, writerVars>>

CallFloat32fromVaxFFloat ==
    /\ pending = "Float32fromVaxFFloat"
    /\ pending' = "none" /\ op' = pending /\ res' = Float32fromVaxFFloat(arg)
    /\ UNCHANGED <<arg, readerVars, writerVars>>

CallFloat64fromVaxGFloat ==
    /\ pending = "Float64fromVaxGFloat"
    /\ pending' = "none" /\ op' = pending /\ res' = Float64fromVaxGFloat(arg)
    /\ UNCHANGED <<arg, readerVars, writerVars>>

\* TestVaxFFloat: the value just encoded is stored big-endian and decoded.
RoundTripF ==
    /\ pending = "RoundTripF"
    /\ pending' = "none" /\ op' = pending
    /\ res' = [enc |-> res, dec |-> Float32fromVaxFFloat(PutUint32(res.val))]
    /\ UNCHANGED <<arg, readerVars, writerVars>>

\* TestVaxGFloat: the same for the double width.
RoundTripG ==
    /\ pending = "RoundTripG"
    /\ pending' = "none" /\ op' = pending
    /\ res' = [enc |-> res, dec |-> Float64fromVaxGFloat(PutUint64(res.val))]
    /\ UNCHANGED <<arg, readerVars, writerVars>>

\* uint32FromVax on a word, once and twice, and uint32FromVaxbits on the
\* big-endian bytes of the swapped word.
CallUint32FromVax ==
    /\ pending = "uint32FromVax"
    /\ pending' = "none" /\ op' = pending
    /\ res' = [swapped |-> uint32FromVax(arg),
               twice |-> uint32FromVax(uint32FromVax(arg)),
               read |-> uint32FromVaxbits(PutUint32(uint32FromVax(arg)))]
    /\ UNCHANGED <<arg, readerVars, writerVars>>

Next ==
    \/ CallVaxFFloatfromFloat32
    \/ CallVaxGFloatfromFloat64
    \/ CallFloat32fromVaxFFloat
    \/ CallFloat64fromVaxGFloat
    \/ RoundTripF
    \/ RoundTripG
    \/ CallUint32FromVax

Spec == Init /\ [][Next]_vars

(***************************************************************************)
(* Reading a stream of F_Floats or G_Floats.                               *)
(***************************************************************************)
\* The units a stream is made of: 1.0, -3.5, a value that decodes to an
\* IEEE subnormal, a dirty zero and a reserved operand.
VaxFUnits ==
    {VaxFBytes(w) : w \in {Word32(0, 129, {}), Word32(1, 130, {21, 22}),
                           Word32(0, 1, 0 .. 22), Word32(0, 0, {5}), Word32(1, 0, {7})}}
VaxGUnits ==
    {VaxGBytes(w) : w \in {Word64(0, 1025, {}), Word64(1, 1026, {50, 51}),
                           Word64(0, 1, 0 .. 51), Word64(0, 0, {5, 40}), Word64(1, 0, {7})}}

RECURSIVE Concat(_)
Concat(ss) == IF ss = <<>> THEN <<>> ELSE Head(ss) \o Concat(Tail(ss))

\* Streams of at most MaxUnits whole units followed by the first bytes of
\* a further unit (none, or fewer than a whole unit).
Streams(units, size) ==
    {Concat(us) \o SubSeq(u, 1, t) :
        us \in UNION {[1 .. k -> units] : k \in 0 .. MaxUnits}, u \in units, t \in 0 .. size - 1}

InitReader ==
    /\ pending = "none" /\ op = "none" /\ arg = {} /\ res = {}
    /\ \/ rkind = "F" /\ rdata \in Streams(VaxFUnits, 4) /\ rbuf = NewVaxFFloatReaderBuf
       \/ rkind = "G" /\ rdata \in Streams(VaxGUnits, 8) /\ rbuf = NewVaxGFloatReaderBuf
    /\ roff = 0 /\ rcalls = 0 /\ rval = {} /\ rerr = Nil
    /\ InitWriterIdle

\* A call of VaxFFloatReader.Read.  The stream is read to its end and twice
\* more.
ReadF ==
    /\ rkind = "F" /\ rcalls < MaxUnits + 2
    /\ LET r == VaxFFloatReaderRead(rdata, roff, rbuf)
       IN  rbuf' = r.buf /\ roff' = r.off /\ rval' = r.val /\ rerr' = r.err
    /\ rcalls' = rcalls + 1
    /\ UNCHANGED <<convVars, rkind, rdata, writerVars>>

\* A call of VaxGFloatReader.Read.
ReadG ==
    /\ rkind = "G" /\ rcalls < MaxUnits + 2
    /\ LET r == VaxGFloatReaderRead(rdata, roff, rbuf)
       IN  rbuf' = r.buf /\ roff' = r.off /\ rval' = r.val /\ rerr' = r.err
    /\ rcalls' = rcalls + 1
    /\ UNCHANGED <<convVars, rkind, rdata, writerVars>>

NextReader == ReadF \/ ReadG

SpecReader == InitReader /\ [][NextReader]_vars

(***************************************************************************)
(* Writing a stream of F_Floats or G_Floats.                               *)
(***************************************************************************)
\* A behaviour makes at most MaxWrites calls of WriteFFloat / WriteGFloat.
MaxWrites == 3

\* binary.Write(w, binary.BigEndian, v) on a sink that never fails: the
\* bytes are appended and the error is nil.
BinaryWrite(sink, bytes) == [sink |-> sink \o bytes, err |-> Nil]
\* WriteFFloat that writes whatever the conversion returned.
WriteFFloatUnchecked(sink, f) ==
    LET c == VaxFFloatfromFloat32(f)
    IN  [sink |-> BinaryWrite(sink, PutUint32(c.val)).sink, err |-> c.err]

\* WriteFFloat: the sink afterwards and the error returned.
WriteFFloat(sink, f) ==
    LET c == VaxFFloatfromFloat32(f)
    IN  IF c.err # Nil
        THEN [sink |-> sink, err |-> c.err]
        ELSE BinaryWrite(sink, PutUint32(c.val))

\* WriteGFloat: the sink afterwards and the error returned.
WriteGFloat(sink, f) ==
    LET c == VaxGFloatfromFloat64(f)
    IN  IF c.err # Nil
        THEN [sink |-> sink, err |-> c.err]
        ELSE BinaryWrite(sink, PutUint64(c.val))

\* The values written: 1.0, -3.5, +Infinity, a negative NaN, a value too
\* large, a subnormal that has a normalized legacy form, and -0.
WriterFloat32s ==
    {Word32(0, 127, {}), Word32(1, 128, {21, 22}), Word32(0, 255, {}), Word32(1, 255, {22}),
     Word32(0, 254, {0}), Word32(0, 0, {0, 22}), Word32(1, 0, {})}
WriterFloat64s ==
    {Word64(0, 1023, {}), Word64(1, 1024, {50, 51}), Word64(0, 2047, {}), Word64(1, 2047, {51}),
     Word64(0, 2046, {0}), Word64(0, 0, {0, 51}), Word64(1, 0, {})}

InitWriter ==
    /\ pending = "none" /\ op = "none" /\ arg = {} /\ res = {}
    /\ InitReaderIdle
    /\ wkind \in {"F", "G"} /\ wsink = <<>> /\ wlog = <<>> /\ werr = Nil

\* A call of WriteFFloat on the sink.
WriteF ==
    /\ wkind = "F" /\ Len(wlog) < MaxWrites
    /\ \E f \in WriterFloat32s :
           LET w == WriteFFloat(wsink, f)
           IN  wsink' = w.sink /\ werr' = w.err /\ wlog' = Append(wlog, f)
    /\ UNCHANGED <<convVars, readerVars, wkind>>

\* A call of WriteGFloat on the sink.
WriteG ==
    /\ wkind = "G" /\ Len(wlog) < MaxWrites
    /\ \E f \in WriterFloat64s :
           LET w == WriteGFloat(wsink, f)
           IN  wsink' = w.sink /\ werr' = w.err /\ wlog' = Append(wlog, f)
    /\ UNCHANGED <<convVars, readerVars, wkind>>

NextWriter == WriteF \/ WriteG

SpecWriter == InitWriter /\ [][NextWriter]_vars

(***************************************************************************)
(* Reading the formats' fields, for the properties below.                  *)
(***************************************************************************)
\* Sign, exponent field and mantissa field of an S_floating / F_floating word.
Sign32(w) == IF 31 \in w THEN 1 ELSE 0
Exp8(w) == Val({i - 23 : i \in w \cap (23 .. 30)})
Mant23(w) == w \cap (0 .. 22)

\* Sign, exponent field and 52-bit mantissa of a T_floating / G_floating
\* 64-bit word.
Sign64(w) == IF 63 \in w THEN 1 ELSE 0
Exp11(w) == Val({i - 52 : i \in w \cap (52 .. 62)})
Mant52(w) == w \cap (0 .. 51)

\* A 32-bit word with its two 16-bit halves exchanged.
SwapHalves(v) == {(i + 16) % 32 : i \in v}

\* The F_floating word stored in 4 bytes: bytes 1-2 hold its low-order
\* 16 bits, bytes 3-4 its high-order 16 bits, each big-endian.
WordOfVaxFBytes(b) ==
    Bits(b[2]) \cup Shl32(Bits(b[1]), 8) \cup Shl32(Bits(b[4]), 16) \cup Shl32(Bits(b[3]), 24)

\* The G_floating 64-bit word stored in 8 bytes: the low-order half first.
WordOfVaxGBytes(b) ==
    Uint64FromWords(WordOfVaxFBytes(SubSeq(b, 5, 8)), WordOfVaxFBytes(SubSeq(b, 1, 4)))

\* The F_floating word / G_floating 64-bit word a returned VaxFFloat /
\* VaxGFloat stands for.
WordOfVaxFFloat(v) == SwapHalves(v)
WordOfVaxGFloat(v) == Uint64FromWords(SwapHalves(LowWord(v)), SwapHalves(HighWord(v)))

(***************************************************************************)
(* C1.  Single-width round trip.                                           *)
(***************************************************************************)
\* A float32 in the F_Float normalized range: exponent field 1..253, or a
\* subnormal whose highest mantissa bit is bit 22 or bit 21.
InFFloatRange(f) ==
    \/ Exp8(f) \in 1 .. 253
    \/ Exp8(f) = 0 /\ (22 \in Mant23(f) \/ 21 \in Mant23(f))

\* C1: for every float32 v in the F_Float normalized range,
\* VaxFFloatfromFloat32(v) returns no error, and Float32fromVaxFFloat of the
\* 4 big-endian bytes of the returned value returns no error and the bit
\* pattern of v.
C1_RoundTripSingle ==
    (op = "RoundTripF" /\ InFFloatRange(arg)) =>
        /\ res.enc.err = Nil
        /\ res.dec.err = Nil
        /\ res.dec.val = arg

\* A negative subnormal with highest mantissa bit 21 and low bits set has
\* made the round trip.
C1_Witness ==
    /\ op = "RoundTripF"
    /\ Exp8(arg) = 0 /\ Sign32(arg) = 1 /\ Mant23(arg) = 0 .. 21
    /\ res.enc.err = Nil /\ res.dec.val = arg

(***************************************************************************)
(* C2.  Double-width round trip.                                           *)
(***************************************************************************)
\* A float64 in the G_Float normalized range: exponent field 1..2045, or a
\* subnormal whose highest mantissa bit is bit 51 or bit 50.
InGFloatRange(f) ==
    \/ Exp11(f) \in 1 .. 2045
    \/ Exp11(f) = 0 /\ (51 \in Mant52(f) \/ 50 \in Mant52(f))

\* C2: for every float64 v in the G_Float normalized range,
\* VaxGFloatfromFloat64(v) returns no error, and Float64fromVaxGFloat of the
\* 8 big-endian bytes of the returned value returns no error and the bit
\* pattern of v.
C2_RoundTripDouble ==
    (op = "RoundTripG" /\ InGFloatRange(arg)) =>
        /\ res.enc.err = Nil
        /\ res.dec.err = Nil
        /\ res.dec.val = arg

\* A subnormal with highest mantissa bit 50 and every lower bit set, in
\* both halves, has made the round trip.
C2_Witness ==
    /\ op = "RoundTripG"
    /\ Exp11(arg) = 0 /\ Mant52(arg) = 0 .. 50
    /\ res.enc.err = Nil /\ res.dec.val = arg

(***************************************************************************)
(* C3.  Underflow to zero.                                                 *)
(***************************************************************************)
\* Finite, non-zero and below the smallest normalized F_Float / G_Float:
\* a subnormal whose highest mantissa bit is below bit 21 / bit 50.
BelowFFloatRange(f) ==
    Exp8(f) = 0 /\ Mant23(f) # {} /\ 22 \notin Mant23(f) /\ 21 \notin Mant23(f)
BelowGFloatRange(f) ==
    Exp11(f) = 0 /\ Mant52(f) # {} /\ 51 \notin Mant52(f) /\ 50 \notin Mant52(f)

\* C3: for every finite non-zero input below the smallest normalized
\* magnitude (|v| < 2^-128 for the single width, |v| < 2^-1024 for the
\* double width) the encoder returns the all-zero pattern and a nil error.
C3_UnderflowToZero ==
    /\ (op = "VaxFFloatfromFloat32" /\ BelowFFloatRange(arg)) =>
           (res.val = {} /\ res.err = Nil)
    /\ (op = "VaxGFloatfromFloat64" /\ BelowGFloatRange(arg)) =>
           (res.val = {} /\ res.err = Nil)

(***************************************************************************)
(* C4.  Overflow saturation.                                               *)
(***************************************************************************)
\* C4: an input with exponent field 254 (float32) / 2046 (float64) returns
\* the overflow error with the word whose sign is the input's and whose
\* exponent and mantissa bits are all ones (both halves for the double);
\* an input with exponent field 1..253 / 1..2045 does not signal overflow.
C4_OverflowSaturation ==
    /\ (op = "VaxFFloatfromFloat32" /\ Exp8(arg) = 254) =>
           /\ res.err = ErrFOverflow
           /\ WordOfVaxFFloat(res.val) = (arg \cap {31}) \cup (0 .. 30)
    /\ (op = "VaxFFloatfromFloat32" /\ Exp8(arg) \in 1 .. 253) =>
           res.err # ErrFOverflow
    /\ (op = "VaxGFloatfromFloat64" /\ Exp11(arg) = 2046) =>
           /\ res.err = ErrGOverflow
           /\ WordOfVaxGFloat(res.val) = (arg \cap {63}) \cup (0 .. 62)
    /\ (op = "VaxGFloatfromFloat64" /\ Exp11(arg) \in 1 .. 2045) =>
           res.err # ErrGOverflow

\* A negative float32 with exponent field 254 has been encoded.
C4_Witness ==
    /\ op = "VaxFFloatfromFloat32"
    /\ Exp8(arg) = 254 /\ Sign32(arg) = 1 /\ Mant23(arg) = {0}
    /\ res.err = ErrFOverflow

(***************************************************************************)
(* C5.  Infinity and NaN are rejected.                                     *)
(***************************************************************************)
\* C5: an input whose exponent field is all ones (either sign, any
\* mantissa) returns the "no VAX equivalent" error with the word that has
\* the input's sign, an all-ones exponent field and a zero mantissa (for
\* the double, a zero low-order half too).
C5_InfinityNaNRejected ==
    /\ (op = "VaxFFloatfromFloat32" /\ Exp8(arg) = 255) =>
           /\ res.err = ErrNoVaxEquivalent
           /\ WordOfVaxFFloat(res.val) = (arg \cap {31}) \cup (23 .. 30)
    /\ (op = "VaxGFloatfromFloat64" /\ Exp11(arg) = 2047) =>
           /\ res.err = ErrNoVaxEquivalent
           /\ WordOfVaxGFloat(res.val) = (arg \cap {63}) \cup (52 .. 62)

\* A negative float64 NaN with mantissa bits in both halves has been encoded.
C5_Witness ==
    /\ op = "VaxGFloatfromFloat64"
    /\ Exp11(arg) = 2047 /\ Sign64(arg) = 1 /\ Mant52(arg) = 0 .. 51
    /\ res.err = ErrNoVaxEquivalent

(***************************************************************************)
(* C6.  Reserved operands.                                                 *)
(***************************************************************************)
\* C6: a stored pattern with exponent field 0 and sign bit 1 (any mantissa)
\* decodes to a reserved-operand error and the value zero, in both widths.
C6_ReservedOperand ==
    /\ (/\ op = "Float32fromVaxFFloat"
        /\ Exp8(WordOfVaxFBytes(arg)) = 0 /\ Sign32(WordOfVaxFBytes(arg)) = 1) =>
           (res.err = ErrFReserved /\ res.val = {})
    /\ (/\ op = "Float64fromVaxGFloat"
        /\ Exp11(WordOfVaxGBytes(arg)) = 0 /\ Sign64(WordOfVaxGBytes(arg)) = 1) =>
           (res.err = ErrGReserved /\ res.val = {})

\* A G_Float reserved operand with every mantissa bit set has been decoded.
C6_Witness ==
    /\ op = "Float64fromVaxGFloat"
    /\ WordOfVaxGBytes(arg) = {63} \cup (0 .. 51)
    /\ res.err = ErrGReserved /\ res.val = {}

(***************************************************************************)
(* C7.  Zero canonicalization.                                             *)
(***************************************************************************)
\* C7: +0 and -0 both encode to the all-zero pattern with a nil error; a
\* stored pattern with exponent field 0 and sign bit 0 (any mantissa, in
\* either half for the double) decodes to +0 with a nil error.
C7_ZeroCanonicalization ==
    /\ (op = "VaxFFloatfromFloat32" /\ arg \in {{}, {31}}) =>
           (res.val = {} /\ res.err = Nil)
    /\ (op = "VaxGFloatfromFloat64" /\ arg \in {{}, {63}}) =>
           (res.val = {} /\ res.err = Nil)
    /\ (/\ op = "Float32fromVaxFFloat"
        /\ Exp8(WordOfVaxFBytes(arg)) = 0 /\ Sign32(WordOfVaxFBytes(arg)) = 0) =>
           (res.val = {} /\ res.err = Nil)
    /\ (/\ op = "Float64fromVaxGFloat"
        /\ Exp11(WordOfVaxGBytes(arg)) = 0 /\ Sign64(WordOfVaxGBytes(arg)) = 0) =>
           (res.val = {} /\ res.err = Nil)

\* An F_Float dirty zero with every mantissa bit set has been decoded.
C7_Witness ==
    /\ op = "Float32fromVaxFFloat"
    /\ WordOfVaxFBytes(arg) = 0 .. 22
    /\ res.val = {} /\ res.err = Nil

(***************************************************************************)
(* C8.  The sign on a failure path.                                        *)
(***************************************************************************)
\* C8 as claimed: on every failure path of the four conversions the sign bit
\* of the value returned with the error equals the sign bit of the input.
C8_SignKeptOnEveryFailure ==
    /\ (op = "VaxFFloatfromFloat32" /\ res.err # Nil) =>
           Sign32(WordOfVaxFFloat(res.val)) = Sign32(arg)
    /\ (op = "VaxGFloatfromFloat64" /\ res.err # Nil) =>
           Sign64(WordOfVaxGFloat(res.val)) = Sign64(arg)
    /\ (op = "Float32fromVaxFFloat" /\ res.err # Nil) =>
           Sign32(res.val) = Sign32(WordOfVaxFBytes(arg))
    /\ (op = "Float64fromVaxGFloat" /\ res.err # Nil) =>
           Sign64(res.val) = Sign64(WordOfVaxGBytes(arg))

\* C8 as amended: on every failure path of the two encoders the value
\* returned with the error is one of the two saturation patterns and its
\* sign bit equals the sign bit of the input; on the reserved-operand path
\* of the two decoders the value returned with the error is +0, whose sign
\* bit is 0 while the input's is 1.
C8_SignKeptOnEncodeFailure ==
    /\ (op = "VaxFFloatfromFloat32" /\ res.err # Nil) =>
           /\ Sign32(WordOfVaxFFloat(res.val)) = Sign32(arg)
           /\ WordOfVaxFFloat(res.val) \ {31} \in {23 .. 30, 0 .. 30}
    /\ (op = "VaxGFloatfromFloat64" /\ res.err # Nil) =>
           /\ Sign64(WordOfVaxGFloat(res.val)) = Sign64(arg)
           /\ WordOfVaxGFloat(res.val) \ {63} \in {52 .. 62, 0 .. 62}
    /\ (op = "Float32fromVaxFFloat" /\ res.err # Nil) =>
           (res.val = {} /\ Sign32(WordOfVaxFBytes(arg)) = 1)
    /\ (op = "Float64fromVaxGFloat" /\ res.err # Nil) =>
           (res.val = {} /\ Sign64(WordOfVaxGBytes(arg)) = 1)

\* A negative float32 has overflowed and the word returned is negative.
C8_Witness ==
    /\ op = "VaxFFloatfromFloat32"
    /\ Exp8(arg) = 254 /\ Sign32(arg) = 1 /\ Mant23(arg) = 0 .. 22
    /\ res.err = ErrFOverflow /\ Sign32(WordOfVaxFFloat(res.val)) = 1

(***************************************************************************)
(* C9.  The stored layout.                                                 *)
(***************************************************************************)
\* C9: uint32FromVax exchanges the two 16-bit halves of a word, so twice is
\* the identity, and uint32FromVaxbits of the 4 big-endian bytes of
\* uint32FromVax(w) is w; the 8 big-endian bytes of a VaxGFloat are the
\* word-swapped low-order half, then the word-swapped high-order
\* (sign/exponent) half; Float64fromVaxGFloat reads bytes 0..3 as the
\* low-order half and bytes 4..7 as the high-order half.
C9_WireLayout ==
    /\ op = "uint32FromVax" =>
           /\ res.swapped = SwapHalves(arg)
           /\ res.twice = arg
           /\ res.read = arg
    /\ op = "VaxGFloatfromFloat64" =>
           /\ SubSeq(PutUint64(res.val), 1, 4) = PutUint32(SwapHalves(res.vaxpart2))
           /\ SubSeq(PutUint64(res.val), 5, 8) = PutUint32(SwapHalves(res.vaxpart1))
           /\ Exp11(arg) \in 1 .. 2045 =>
                  /\ res.vaxpart2 = LowWord(arg)
                  /\ Sign32(res.vaxpart1) = Sign64(arg)
                  /\ Val({i - 20 : i \in res.vaxpart1 \cap (20 .. 30)}) = Exp11(arg) + 2
    /\ op = "Float64fromVaxGFloat" =>
           /\ res.vaxpart2 = WordOfVaxFBytes(SubSeq(arg, 1, 4))
           /\ res.vaxpart1 = WordOfVaxFBytes(SubSeq(arg, 5, 8))

\* A word whose halves differ has been swapped, swapped back and read back
\* from its stored bytes.
C9_Witness ==
    /\ op = "uint32FromVax"
    /\ arg = {31} \cup (0 .. 22)
    /\ res.swapped = (0 .. 6) \cup (15 .. 31) /\ res.read = arg

(***************************************************************************)
(* C10.  The readers return the units of the stream in order.              *)
(***************************************************************************)
\* The size of a unit of the reader constructed, the number of whole units
\* in its stream, and the i-th of them.
UnitSize == IF rkind = "F" THEN 4 ELSE 8
WholeUnits == Len(rdata) \div UnitSize
UnitAt(i) == SubSeq(rdata, (i - 1) * UnitSize + 1, i * UnitSize)

\* Whether the i-th unit is a reserved operand, and its decoding.
ReservedAt(i) ==
    IF rkind = "F"
    THEN Exp8(WordOfVaxFBytes(UnitAt(i))) = 0 /\ Sign32(WordOfVaxFBytes(UnitAt(i))) = 1
    ELSE Exp11(WordOfVaxGBytes(UnitAt(i))) = 0 /\ Sign64(WordOfVaxGBytes(UnitAt(i))) = 1
DecodedAt(i) ==
    IF rkind = "F" THEN Float32fromVaxFFloat(UnitAt(i)).val
    ELSE Float64fromVaxGFloat(UnitAt(i)).val

\* C10: on a stream of exactly k whole units none of which is a reserved
\* operand, the i-th Read (1 <= i <= k) returns a nil error and the decoding
\* of the i-th unit, and Read k+1 returns io.EOF; when only a part of a unit
\* remains, Read returns an error and the value 0.
C10_ReaderOrdering ==
    /\ (/\ Len(rdata) % UnitSize = 0
        /\ \A i \in 1 .. WholeUnits : ~ReservedAt(i)) =>
           /\ rcalls \in 1 .. WholeUnits => (rerr = Nil /\ rval = DecodedAt(rcalls))
           /\ rcalls = WholeUnits + 1 => rerr = EOF
    /\ (Len(rdata) % UnitSize # 0 /\ rcalls = WholeUnits + 1) =>
           (rerr # Nil /\ rval = {})

\* A G_Float reader has returned the two units of its stream and then met
\* a part of a unit.
C10_Witness ==
    /\ rkind = "G" /\ Len(rdata) = 2 * 8 + 5 /\ rcalls = 3
    /\ ~ReservedAt(1) /\ ~ReservedAt(2) /\ UnitAt(1) # UnitAt(2)
    /\ rerr = ErrUnexpectedEOF /\ rval = {}

(***************************************************************************)
(* C11.  The stream writers.                                               *)
(***************************************************************************)
\* The bytes a sink holds after the calls in log: for each value whose
\* conversion returned no error, in call order, the stored form of the
\* legacy word it was converted to.
RECURSIVE SinkAfterF(_)
SinkAfterF(log) ==
    IF log = <<>> THEN <<>>
    ELSE LET c == VaxFFloatfromFloat32(log[Len(log)])
         IN  SinkAfterF(SubSeq(log, 1, Len(log) - 1))
                 \o (IF c.err = Nil THEN VaxFBytes(WordOfVaxFFloat(c.val)) ELSE <<>>)
RECURSIVE SinkAfterG(_)
SinkAfterG(log) ==
    IF log = <<>> THEN <<>>
    ELSE LET c == VaxGFloatfromFloat64(log[Len(log)])
         IN  SinkAfterG(SubSeq(log, 1, Len(log) - 1))
                 \o (IF c.err = Nil THEN VaxGBytes(WordOfVaxGFloat(c.val)) ELSE <<>>)

\* The value of the last call of WriteFFloat / WriteGFloat.
LastWritten == wlog[Len(wlog)]

\* C11: after any sequence of WriteFFloat (WriteGFloat) calls on an empty
\* sink that never fails, the sink holds the concatenation, in call order,
\* of the 4-byte (8-byte) stored forms of exactly the values whose
\* conversion returned no error; a call whose conversion fails (Infinity,
\* NaN, overflow) returns the conversion's error and adds nothing to the
\* sink.
C11_WriterSink ==
    /\ wkind = "F" =>
           /\ wsink = SinkAfterF(wlog)
           /\ wlog # <<>> =>
                  /\ werr = VaxFFloatfromFloat32(LastWritten).err
                  /\ Exp8(LastWritten) = 255 => werr = ErrNoVaxEquivalent
                  /\ Exp8(LastWritten) = 254 => werr = ErrFOverflow
                  /\ werr # Nil => wsink = SinkAfterF(SubSeq(wlog, 1, Len(wlog) - 1))
    /\ wkind = "G" =>
           /\ wsink = SinkAfterG(wlog)
           /\ wlog # <<>> =>
                  /\ werr = VaxGFloatfromFloat64(LastWritten).err
                  /\ Exp11(LastWritten) = 2047 => werr = ErrNoVaxEquivalent
                  /\ Exp11(LastWritten) = 2046 => werr = ErrGOverflow
                  /\ werr # Nil => wsink = SinkAfterG(SubSeq(wlog, 1, Len(wlog) - 1))

\* WriteFFloat has been called with 1.0, with +Infinity and with -3.5: the
\* sink holds the stored forms of 1.0 and -3.5 and nothing of the Infinity.
C11_Witness ==
    /\ wkind = "F"
    /\ wlog = <<Word32(0, 127, {}), Word32(0, 255, {}), Word32(1, 128, {21, 22})>>
    /\ wsink = <<0, 0, 64, 128, 0, 0, 193, 96>>
    /\ werr = Nil

(***************************************************************************)
(* C12.  Encoding an IEEE subnormal that has a normalized legacy form.     *)
(***************************************************************************)
\* The highest set bit of a non-empty mantissa.
HighestBit(m) == CHOOSE p \in m : \A i \in m : i <= p

\* (m << n) mod 2^width on a mantissa of width bits.
ShiftedMantissa(m, n, width) == {i + n : i \in m} \cap (0 .. width - 1)

\* C12: a float32 subnormal whose highest mantissa bit p is 22 or 21 encodes
\* with no error to the legacy word with the input's sign, exponent field
\* p - 20 and mantissa (m << (23 - p)) mod 2^23; a float64 subnormal whose
\* highest mantissa bit p is 51 or 50 encodes with no error to the word with
\* the input's sign, exponent field p - 49 and 52-bit mantissa
\* (M << (52 - p)) mod 2^52, the bits shifted out of the low-order half
\* entering the high-order half.
C12_SubnormalRenormalized ==
    /\ (op = "VaxFFloatfromFloat32" /\ Exp8(arg) = 0 /\ Mant23(arg) \cap {21, 22} # {}) =>
           LET p == HighestBit(Mant23(arg))
               w == WordOfVaxFFloat(res.val)
           IN  /\ res.err = Nil
               /\ Sign32(w) = Sign32(arg)
               /\ Exp8(w) = p - 20
               /\ Mant23(w) = ShiftedMantissa(Mant23(arg), 23 - p, 23)
    /\ (op = "VaxGFloatfromFloat64" /\ Exp11(arg) = 0 /\ Mant52(arg) \cap {50, 51} # {}) =>
           LET p == HighestBit(Mant52(arg))
               w == WordOfVaxGFloat(res.val)
           IN  /\ res.err = Nil
               /\ Sign64(w) = Sign64(arg)
               /\ Exp11(w) = p - 49
               /\ Mant52(w) = ShiftedMantissa(Mant52(arg), 52 - p, 52)

\* A float64 subnormal with highest mantissa bit 50 and bits 31 and 30 of
\* the low-order half set has been encoded: the two bits are now bits 1 and
\* 0 of the high-order half's mantissa.
C12_Witness ==
    /\ op = "VaxGFloatfromFloat64"
    /\ Exp11(arg) = 0 /\ Mant52(arg) = 0 .. 50
    /\ res.err = Nil
    /\ Exp11(WordOfVaxGFloat(res.val)) = 1
    /\ Mant52(WordOfVaxGFloat(res.val)) = 2 .. 51

(***************************************************************************)
(* C13.  Decoding a G_Float to an IEEE subnormal.                          *)
(***************************************************************************)
\* floor((2^width + m) / 2^n) for a mantissa m of width bits and n >= 1:
\* the mantissa with its hidden bit, shifted right n places, the bits
\* shifted out dropped.
ChoppedMantissa(m, n, width) == {i - n : i \in m \cup {width}} \cap (0 .. width - 1)

\* C13: a G_Float pattern with exponent field e in {1, 2}, sign s and 52-bit
\* mantissa M decodes with no error to the double with sign s, exponent
\* field 0 and mantissa floor((2^52 + M) / 2^(3-e)): the bits shifted out of
\* the high-order half are the top bits of the low-order half, the sign does
\* not enter the mantissa and the bits shifted out at the low end are
\* dropped without rounding.
C13_SubnormalDecodeDouble ==
    (op = "Float64fromVaxGFloat" /\ Exp11(WordOfVaxGBytes(arg)) \in {1, 2}) =>
        LET w == WordOfVaxGBytes(arg)
        IN  /\ res.err = Nil
            /\ Sign64(res.val) = Sign64(w)
            /\ Exp11(res.val) = 0
            /\ Mant52(res.val) = ChoppedMantissa(Mant52(w), 3 - Exp11(w), 52)

\* A negative G_Float with exponent field 1 and mantissa bits 33 and 0 has
\* been decoded: bit 33, bit 1 of the high-order half, is now bit 31 of the
\* low-order half, bit 0 is gone and the hidden bit is bit 50.
C13_Witness ==
    /\ op = "Float64fromVaxGFloat"
    /\ WordOfVaxGBytes(arg) = {63, 52, 33, 0}
    /\ res.err = Nil /\ res.val = {63, 50, 31}

(***************************************************************************)
(* C14.  Decoding an F_Float to an IEEE subnormal.                         *)
(***************************************************************************)
\* C14: for an F_Float pattern with exponent field e in {1, 2}, sign s and
\* mantissa m the re-biased exponent e - 2 is not positive, the right shift
\* 1 - (e - 2) is 1 or 2, and the pattern decodes with no error to the
\* single with sign s, exponent field 0 and mantissa
\* floor((2^23 + m) / 2^(3-e)): the bits shifted out are truncated.
C14_SubnormalDecodeSingle ==
    (op = "Float32fromVaxFFloat" /\ Exp8(WordOfVaxFBytes(arg)) \in {1, 2}) =>
        LET w == WordOfVaxFBytes(arg)
            e == Exp8(w) - DecFExponentAdjustment
        IN  /\ e <= 0
            /\ 1 - e \in {1, 2}
            /\ 1 - e = 3 - Exp8(w)
            /\ res.err = Nil
            /\ Sign32(res.val) = Sign32(w)
            /\ Exp8(res.val) = 0
            /\ Mant23(res.val) = ChoppedMantissa(Mant23(w), 1 - e, 23)

\* An F_Float with exponent field 1 and every mantissa bit set has been
\* decoded: the two low bits are dropped and the result is not rounded up.
C14_Witness ==
    /\ op = "Float32fromVaxFFloat"
    /\ WordOfVaxFBytes(arg) = 0 .. 23
    /\ res.err = Nil /\ res.val = 0 .. 21

(***************************************************************************)
(* C15.  Encoding an IEEE normal value.                                    *)
(***************************************************************************)
\* C15: a float32 with exponent field e in 1..253, sign s and mantissa m
\* encodes with no error to the word-swap of the legacy word with sign s,
\* exponent field e + 2 and mantissa m; a float64 with exponent field e in
\* 1..2045 encodes with no error to the value whose high-order half has
\* sign s, exponent field e + 2 and the same 20 high mantissa bits and
\* whose low-order half is the input's low 32 bits.
C15_EncodeNormal ==
    /\ (op = "VaxFFloatfromFloat32" /\ Exp8(arg) \in 1 .. 253) =>
           /\ res.err = Nil
           /\ res.val = SwapHalves(Word32(Sign32(arg), Exp8(arg) + 2, Mant23(arg)))
    /\ (op = "VaxGFloatfromFloat64" /\ Exp11(arg) \in 1 .. 2045) =>
           LET w == WordOfVaxGFloat(res.val)
           IN  /\ res.err = Nil
               /\ Sign64(w) = Sign64(arg)
               /\ Exp11(w) = Exp11(arg) + 2
               /\ HighWord(w) \cap (0 .. 19) = HighWord(arg) \cap (0 .. 19)
               /\ LowWord(w) = LowWord(arg)

\* The largest negative float64 that has a G_Float form has been encoded:
\* its exponent field 2045 has become 2047.
C15_Witness ==
    /\ op = "VaxGFloatfromFloat64"
    /\ arg = Word64(1, 2045, 0 .. 51)
    /\ res.err = Nil
    /\ WordOfVaxGFloat(res.val) = Word64(1, 2047, 0 .. 51)

(***************************************************************************)
(* C16.  Decoding a legacy value in the IEEE normal range.                 *)
(***************************************************************************)
\* C16: an F_Float pattern with exponent field e in 3..255 (a G_Float
\* pattern with e in 3..2047), sign s and mantissa m decodes with no error
\* to the IEEE value with sign s, exponent field e - 2 and mantissa m (for
\* the double the low-order half is copied): the subtraction of the
\* exponent adjustment in place borrows nothing from the sign bit and
\* leaves the mantissa alone.
C16_DecodeNormal ==
    /\ (op = "Float32fromVaxFFloat" /\ Exp8(WordOfVaxFBytes(arg)) \in 3 .. 255) =>
           LET w == WordOfVaxFBytes(arg)
           IN  /\ res.err = Nil
               /\ Sign32(res.val) = Sign32(w)
               /\ Exp8(res.val) = Exp8(w) - 2
               /\ Mant23(res.val) = Mant23(w)
    /\ (op = "Float64fromVaxGFloat" /\ Exp11(WordOfVaxGBytes(arg)) \in 3 .. 2047) =>
           LET w == WordOfVaxGBytes(arg)
           IN  /\ res.err = Nil
               /\ Sign64(res.val) = Sign64(w)
               /\ Exp11(res.val) = Exp11(w) - 2
               /\ Mant52(res.val) = Mant52(w)
               /\ LowWord(res.val) = LowWord(w)

\* A negative F_Float with exponent field 3, the least that decodes to a
\* normal single, and an empty mantissa has been decoded: the subtraction
\* leaves exponent field 1 and the sign.
C16_Witness ==
    /\ op = "Float32fromVaxFFloat"
    /\ WordOfVaxFBytes(arg) = Word32(1, 3, {})
    /\ res.err = Nil /\ res.val = Word32(1, 1, {})

(***************************************************************************)
(* C17.  Decoding fails on reserved operands only.                         *)
(***************************************************************************)
\* C17: a legacy pattern that is not a reserved operand (not sign 1 with
\* exponent field 0) decodes with a nil error to a finite IEEE value, its
\* exponent field never all ones, that is zero if and only if the legacy
\* exponent field is 0.
C17_DecodeTotal ==
    /\ (/\ op = "Float32fromVaxFFloat"
        /\ ~(Sign32(WordOfVaxFBytes(arg)) = 1 /\ Exp8(WordOfVaxFBytes(arg)) = 0)) =>
           /\ res.err = Nil
           /\ Exp8(res.val) # 255
           /\ (res.val \ {31} = {}) <=> (Exp8(WordOfVaxFBytes(arg)) = 0)
    /\ (/\ op = "Float64fromVaxGFloat"
        /\ ~(Sign64(WordOfVaxGBytes(arg)) = 1 /\ Exp11(WordOfVaxGBytes(arg)) = 0)) =>
           /\ res.err = Nil
           /\ Exp11(res.val) # 2047
           /\ (res.val \ {63} = {}) <=> (Exp11(WordOfVaxGBytes(arg)) = 0)

\* The G_Float of the greatest magnitude has been decoded to a finite
\* double.
C17_Witness ==
    /\ op = "Float64fromVaxGFloat"
    /\ WordOfVaxGBytes(arg) = Word64(0, 2047, 0 .. 51)
    /\ res.err = Nil /\ Exp11(res.val) = 2045

(***************************************************************************)
(* C18.  The normalization loop is bounded.                                *)
(***************************************************************************)
\* C18: for a non-zero IEEE subnormal the loop of VaxFFloatfromFloat32 ends
\* after at most 22 passes (23 shifts with the one before the loop) and the
\* loop of VaxGFloatfromFloat64 after at most 51 passes (52 shifts), also
\* when the only set bits of a double are in its low-order half: with
\* highest mantissa bit p it makes 22 - p / 51 - p passes.  With an
\* all-zero mantissa the loop is not entered.
C18_LoopBounded ==
    /\ (op = "VaxFFloatfromFloat32" /\ Exp8(arg) = 0) =>
           IF Mant23(arg) = {} THEN res.iters = 0
           ELSE /\ res.iters <= 22
                /\ res.iters = 22 - HighestBit(Mant23(arg))
    /\ (op = "VaxGFloatfromFloat64" /\ Exp11(arg) = 0) =>
           IF Mant52(arg) = {} THEN res.iters = 0
           ELSE /\ res.iters <= 51
                /\ res.iters = 51 - HighestBit(Mant52(arg))

\* The least float64 subnormal, whose only set bit is bit 0 of the
\* low-order half, has been through the loop 51 times.
C18_Witness ==
    /\ op = "VaxGFloatfromFloat64"
    /\ arg = {0}
    /\ res.iters = 51

(***************************************************************************)
(* C19.  A reader stays in step after a conversion error.                  *)
(***************************************************************************)
\* The error the conversion of the i-th unit returns.
ErrorAt(i) ==
    IF rkind = "F" THEN Float32fromVaxFFloat(UnitAt(i)).err
    ELSE Float64fromVaxGFloat(UnitAt(i)).err

\* C19: a Read that returns the reserved-operand error has consumed exactly
\* one whole unit and returned 0, and every later Read is as if that unit
\* had been a valid one: on any stream the i-th Read consumes the i-th unit
\* and returns its conversion, whatever errors came before and whatever the
\* reused buffer held.
C19_ReaderInStep ==
    rcalls \in 1 .. WholeUnits =>
        /\ roff = rcalls * UnitSize
        /\ rbuf = UnitAt(rcalls)
        /\ rerr = ErrorAt(rcalls)
        /\ rval = DecodedAt(rcalls)
        /\ ReservedAt(rcalls) =>
               /\ rerr = (IF rkind = "F" THEN ErrFReserved ELSE ErrGReserved)
               /\ rval = {}

\* An F_Float reader met a reserved operand in its first Read and has
\* returned the decoding of the second unit in its second.
C19_Witness ==
    /\ rkind = "F" /\ rcalls = 2 /\ WholeUnits = 2
    /\ ReservedAt(1) /\ ~ReservedAt(2)
    /\ roff = 8 /\ rerr = Nil /\ rval = DecodedAt(2) /\ rval # {}

====
